---- MODULE Spec2Model ----
(***************************************************************************)
(* geology-engine: the HTTP surface of app/main.py, the credential         *)
(* verifier of app/auth.py and the request schemas of app/rbf_models.py.   *)
(*                                                                         *)
(* One action per route.  An action takes one request (Authorization       *)
(* header and decoded JSON body), runs the dependency chain and the        *)
(* handler to completion and leaves the request, the response and the      *)
(* ordered list of the phases the request went through in the state.       *)
(* The numerical solver (ferreus_rbf) is an opaque collaborator: each of   *)
(* its calls returns or raises, chosen by the environment, and so are the  *)
(* values it returns and the structure it persists.  The temporary files   *)
(* of app/rbf_service.py outlive a request; files holds the paths that     *)
(* exist between requests.                                                 *)
(*                                                                         *)
(* earlier remembers one served request (its credential, the clock and the *)
(* verifier's outcome) for the properties that compare two requests.       *)
(* inflight and disk serve the specification in which /rbf/coefficients    *)
(* requests overlap: the position of each request in extract_coefficients  *)
(* and the temporary directory with the creator and content of each file.  *)
(***************************************************************************)
EXTENDS Integers, Sequences, FiniteSets, TLC

VARIABLES secret, now, req, resp, auth, phases, solver, handed, log, files,
          earlier, inflight, disk

vars == <<secret, now, req, resp, auth, phases, solver, handed, log, files,
          earlier, inflight, disk>>

(***************************************************************************)
(* Bounds of the model.                                                    *)
(***************************************************************************)
\* The clock runs over 0..MaxTime; exp and nbf claims are drawn from it.
MaxTime == 1
\* Longest intervals / query_points list of a request body.
MaxItems == 2
\* Most rows of training_points, most training_values.
MaxRows == 2
\* Most rows of test_points.
MaxTestRows == 1
\* Most columns of one row of training_points / test_points.
MaxDim == 2
\* The temporary directory has room for the names 1..MaxPaths.
MaxPaths == 2
\* Longest flat data sequence of a persisted matrix.
MaxData == 4
\* Largest nrows / ncols of a persisted matrix.
MaxShape == 2

Times == 0..MaxTime

\* An optional value: <<>> is Python's None / an absent claim, <<v>> is v.
Opt(S) == {<<>>} \cup {<<v>> : v \in S}

\* Sequences over S of length 0..n.
SeqUpTo(S, n) == UNION {[1..k -> S] : k \in 0..n}

(***************************************************************************)
(* Credentials.  A JWT is modelled by what jwt.decode reads of it: the     *)
(* header's alg, the key its signature was made with, and its claims.      *)
(* form = "junk" is a string that is not three base64 segments, "empty" is *)
(* the empty string.                                                       *)
(***************************************************************************)
Keys == {"k1", "k2"}

\* SUPABASE_JWT_SECRET as read at import: unset (""), or the project secret.
Secrets == {"", "k1"}

Algs == {"HS256", "HS512"}

NoClaims == [sub |-> <<>>, exp |-> <<>>, email |-> <<>>, role |-> <<>>,
             aud |-> <<>>, nbf |-> <<>>]

Payloads == [sub : Opt({"user-1"}), exp : Opt(Times),
             email : Opt({"user@example.com"}), role : Opt({"authenticated"}),
             aud : Opt({"authenticated"}), nbf : Opt({MaxTime})]

JwtTokens == [form : {"jwt"}, alg : Algs, key : Keys, claims : Payloads]

OtherTokens == [form : {"junk", "empty"}, alg : {"HS256"}, key : {"k1"},
                claims : {NoClaims}]

Tokens == JwtTokens \cup OtherTokens

\* The tokens the data routes are exercised with: the identity claims that
\* only GET /me echoes are left out.
DataTokens == {t \in Tokens : t.claims.email = <<>> /\ t.claims.role = <<>>}

\* The Authorization header: absent, or "<scheme> <credentials>".
NoHeader == [present |-> FALSE, scheme |-> "", credentials |-> CHOOSE t \in OtherTokens : t.form = "empty"]

HeadersOf(T) == {NoHeader} \cup
                [present : {TRUE}, scheme : {"Bearer"}, credentials : T] \cup
                [present : {TRUE}, scheme : {"Basic"},
                 credentials : {t \in T : t.form = "junk"}]

\* Faulty variant: decoded with options={"verify_signature": False}.
jwt_decode_Unverified(token, key, t) ==
  IF token.form # "jwt" THEN "DecodeError"
  ELSE IF token.claims.exp = <<>> \/ token.claims.sub = <<>>
       THEN "MissingRequiredClaimError"
  ELSE "ok"

\* Faulty variant: options={"require": ["sub"]}: a token without exp never expires.
jwt_decode_ExpOptional(token, key, t) ==
  IF token.form # "jwt" THEN "DecodeError"
  ELSE IF token.alg # "HS256" THEN "InvalidAlgorithmError"
  ELSE IF token.key # key THEN "InvalidSignatureError"
  ELSE IF token.claims.sub = <<>> THEN "MissingRequiredClaimError"
  ELSE IF token.claims.nbf # <<>> /\ token.claims.nbf[1] > t
       THEN "ImmatureSignatureError"
  ELSE IF token.claims.exp # <<>> /\ token.claims.exp[1] <= t
       THEN "ExpiredSignatureError"
  ELSE IF token.claims.aud # <<>> THEN "InvalidAudienceError"
  ELSE "ok"

\* Faulty variant: a token counts as expired only at the instant of its exp.
jwt_decode_ExpEquals(token, key, t) ==
  IF token.form # "jwt" THEN "DecodeError"
  ELSE IF token.alg # "HS256" THEN "InvalidAlgorithmError"
  ELSE IF token.key # key THEN "InvalidSignatureError"
  ELSE IF token.claims.exp = <<>> \/ token.claims.sub = <<>>
       THEN "MissingRequiredClaimError"
  ELSE IF token.claims.nbf # <<>> /\ token.claims.nbf[1] > t
       THEN "ImmatureSignatureError"
  ELSE IF token.claims.exp[1] = t THEN "ExpiredSignatureError"
  ELSE IF token.claims.aud # <<>> THEN "InvalidAudienceError"
  ELSE "ok"

(***************************************************************************)
(* jwt.decode(token, key, algorithms=["HS256"],                            *)
(*            options={"require": ["exp", "sub"]})                         *)
(* Returns the name of the exception raised, or "ok".  The order is the    *)
(* library's: segments, algorithm, signature, required claims, nbf, exp,   *)
(* aud (no audience is passed, so a token that carries aud is refused).    *)
(***************************************************************************)
jwt_decode(token, key, t) ==
  IF token.form # "jwt" THEN "DecodeError"
  ELSE IF token.alg # "HS256" THEN "InvalidAlgorithmError"
  ELSE IF token.key # key THEN "InvalidSignatureError"
  ELSE IF token.claims.exp = <<>> \/ token.claims.sub = <<>>
       THEN "MissingRequiredClaimError"
  ELSE IF token.claims.nbf # <<>> /\ token.claims.nbf[1] > t
       THEN "ImmatureSignatureError"
  ELSE IF token.claims.exp[1] <= t THEN "ExpiredSignatureError"
  ELSE IF token.claims.aud # <<>> THEN "InvalidAudienceError"
  ELSE "ok"

\* The outcomes of the credential verifier.
NoUser == [id |-> "", email |-> <<>>, role |-> <<>>]

Rejected(reason, status, detail) ==
  [tag |-> reason, status |-> status, detail |-> detail, user |-> NoUser]

Authenticated(user) ==
  [tag |-> "Authenticated", status |-> 200, detail |-> "", user |-> user]

NotInvoked == [tag |-> "NotInvoked", status |-> 0, detail |-> "", user |-> NoUser]

\* SupabaseUser(id=payload["sub"], email=payload.get("email"), role=payload.get("role"))
SupabaseUser(payload) ==
  [id |-> payload.sub[1], email |-> payload.email, role |-> payload.role]

\* Faulty variant: the empty-secret check is missing.
get_supabase_user_NoSecretCheck(key, token, t) ==
  LET r == jwt_decode(token, key, t) IN
  IF r = "ExpiredSignatureError"
  THEN Rejected("TokenExpired", 401, "Token has expired")
  ELSE IF r # "ok"
  THEN Rejected("InvalidToken", 401, "Invalid token")
  ELSE Authenticated(SupabaseUser(token.claims))

\* Faulty variant: both except clauses answer "Invalid token".
get_supabase_user_OneExcept(key, token, t) ==
  IF key = ""
  THEN Rejected("ServerMisconfigured", 500, "SUPABASE_JWT_SECRET is not configured")
  ELSE IF jwt_decode(token, key, t) # "ok"
  THEN Rejected("InvalidToken", 401, "Invalid token")
  ELSE Authenticated(SupabaseUser(token.claims))

\* get_supabase_user, given the credentials HTTPBearer extracted.
get_supabase_user(key, token, t) ==
  IF key = ""
  THEN Rejected("ServerMisconfigured", 500, "SUPABASE_JWT_SECRET is not configured")
  ELSE LET r == jwt_decode(token, key, t) IN
       IF r = "ExpiredSignatureError"
       THEN Rejected("TokenExpired", 401, "Token has expired")
       ELSE IF r # "ok"
       THEN Rejected("InvalidToken", 401, "Invalid token")
       ELSE Authenticated(SupabaseUser(token.claims))

\* HTTPBearer(): TRUE when the header yields credentials to hand on.
\* No header, or a header without credentials, or another scheme: 401.
BearerAccepts(header) ==
  /\ header.present
  /\ header.credentials.form # "empty"
  /\ header.scheme = "Bearer"

\* Faulty variant: HTTPBearer(auto_error=False): the verifier runs without credentials.
Verify_AutoErrorOff(key, header, t) ==
  IF ~BearerAccepts(header)
  THEN get_supabase_user(key, [form |-> "junk", alg |-> "HS256", key |-> "k1",
                               claims |-> NoClaims], t)
  ELSE get_supabase_user(key, header.credentials, t)

\* Faulty variant: the verifier keeps the credentials it has seen and refuses
\* a credential presented a second time.
Verify_OneTime(key, header, t) ==
  IF ~BearerAccepts(header)
  THEN Rejected("MissingCredential", 401, "Not authenticated")
  ELSE IF earlier.set /\ earlier.header = header
  THEN Rejected("InvalidToken", 401, "Invalid token")
  ELSE get_supabase_user(key, header.credentials, t)

\* Faulty variant: the configured secret is examined before the Authorization
\* header is.
Verify_SecretFirst(key, header, t) ==
  IF key = ""
  THEN Rejected("ServerMisconfigured", 500, "Server misconfiguration: JWT secret not set")
  ELSE IF ~BearerAccepts(header)
  THEN Rejected("MissingCredential", 401, "Not authenticated")
  ELSE get_supabase_user(key, header.credentials, t)

\* Depends(get_supabase_user) with its sub-dependency Depends(_bearer_scheme).
Verify(key, header, t) ==
  IF ~BearerAccepts(header)
  THEN Rejected("MissingCredential", 401, "Not authenticated")
  ELSE get_supabase_user(key, header.credentials, t)


(***************************************************************************)
(* Request bodies (decoded JSON) and their schemas.                        *)
(***************************************************************************)
\* Coordinates and values are fixed-point numbers in units of 1/Scale.
Scale == 2

\* fitting_accuracy's default, 0.01, in units of 1/100.
DefaultAccuracy == 1

IntervalValues == {[x |-> -1, y |-> 0, z |-> 3, value |-> 1]}

QueryValues == {[x |-> 1, y |-> 0, z |-> 2]}

\* fitting_accuracy as sent: omitted, JSON null, or a number (units of 1/100).
AccuracyInputs == {<<"omitted">>, <<"null">>} \cup
                  {<<"num", n>> : n \in {-1, 0, 5}}

CoefficientsBodies ==
  [intervals : SeqUpTo(IntervalValues, MaxItems), fitting_accuracy : AccuracyInputs]

EvaluateBodies ==
  [intervals : SeqUpTo(IntervalValues, MaxItems),
   query_points : SeqUpTo(QueryValues, MaxItems),
   fitting_accuracy : AccuracyInputs]

\* list[list[float]]: rows may be empty and may differ in length.
PointRows == SeqUpTo({0}, MaxDim)

InterpolateBodies ==
  [training_points : SeqUpTo(PointRows, MaxRows),
   training_values : SeqUpTo({0}, MaxRows),
   test_points : SeqUpTo(PointRows, MaxTestRows)]

\* Optional[float] = Field(default=0.01, gt=0.0): gt is applied to numbers only.
AccuracyValid(a) == a[1] \in {"omitted", "null"} \/ a[2] > 0

\* The value of request.fitting_accuracy after validation (<<>> is None).
AccuracyField(a) ==
  IF a[1] = "omitted" THEN <<DefaultAccuracy>>
  ELSE IF a[1] = "null" THEN <<>>
  ELSE <<a[2]>>

\* RBFCoefficientsRequest: intervals min_length=1, fitting_accuracy gt=0.
CoefficientsRequestValid(body) ==
  /\ Len(body.intervals) >= 1
  /\ AccuracyValid(body.fitting_accuracy)

\* Faulty variant: query_points declared without min_length=1.
EvaluateRequestValid_NoMinQuery(body) ==
  /\ Len(body.intervals) >= 1
  /\ AccuracyValid(body.fitting_accuracy)

\* RBFEvaluateRequest: intervals and query_points min_length=1.
EvaluateRequestValid(body) ==
  /\ Len(body.intervals) >= 1
  /\ Len(body.query_points) >= 1
  /\ AccuracyValid(body.fitting_accuracy)

(***************************************************************************)
(* numpy: np.array(rows, dtype=np.float64) and .shape.                     *)
(***************************************************************************)
\* Rows of unequal length: np.array raises ValueError.
np_array_raises(rows) ==
  \E i, j \in 1..Len(rows) : Len(rows[i]) # Len(rows[j])

\* The shape of the array: (0,) for [], (n, d) for n rows of d columns.
np_shape(rows) ==
  IF rows = <<>> THEN <<0>> ELSE <<Len(rows), Len(rows[1])>>

(***************************************************************************)
(* Responses.                                                              *)
(***************************************************************************)
Response(status, detail, body) ==
  [status |-> status, detail |-> detail, body |-> body]

NoResponse == Response(0, "", <<>>)

\* An exception no handler catches: the framework answers 500.
Unhandled == Response(500, "Internal Server Error", <<>>)

\* RequestValidationError: the body violates the route's schema.
SchemaError == Response(422, "validation error", <<>>)

\* What a handler body leaves behind: the response, the phases it went
\* through, the accuracy arguments handed to the solver, the warnings logged
\* and the temporary paths still on disk.
Outcome(r, ph) ==
  [resp |-> r, phases |-> ph, handed |-> <<>>, log |-> <<>>, left |-> {}]

(***************************************************************************)
(* JSON values of the solver's persisted structure (save_model's file).    *)
(***************************************************************************)
JsonValue(kind, keyed, data, nrows, ncols, rows) ==
  [kind |-> kind, keyed |-> keyed, data |-> data, nrows |-> nrows,
   ncols |-> ncols, rows |-> rows]

\* The key is not in the structure.
Absent == JsonValue("absent", FALSE, <<>>, <<>>, <<>>, <<>>)

Null == JsonValue("null", FALSE, <<>>, <<>>, <<>>, <<>>)

\* A flat list of numbers.
List(items) == JsonValue("list", FALSE, items, <<>>, <<>>, <<>>)

\* {"data": [...], "nrows": r, "ncols": c}; nrows / ncols <<>> when the key is absent.
Dict(data, nrows, ncols) == JsonValue("dict", TRUE, data, nrows, ncols, <<>>)

\* A dict without a "data" key.
DictNoData == JsonValue("dict", FALSE, <<>>, <<>>, <<>>, <<>>)

\* A list of lists of numbers.
Matrix(rows) == JsonValue("matrix", FALSE, <<>>, <<>>, <<>>, rows)

\* The data 1, 2, ..., n: distinct elements, so that a drop or a reorder shows.
Prefix(n) == [i \in 1..n |-> i]

ArrayDicts ==
  {Dict(Prefix(n), r, c) :
     n \in 0..MaxData, r \in Opt(0..MaxShape), c \in Opt(0..MaxShape)}

FieldValues ==
  ArrayDicts \cup {Absent, Null, DictNoData, List(<<>>), List(<<1, 2, 3>>),
                   Matrix(<< <<1, 2>> >>)}

ArrayFields == {"points", "point_coefficients", "poly_coefficients",
                "translation_factor", "scale_factor"}

SettingFields == {"polynomial_degree", "nugget"}

\* A structure as the handler reads it: one source point, its coefficient, a
\* constant polynomial term, flat translation and scale vectors.
BaseModel ==
  [points |-> Dict(<<1, 2, 3>>, <<1>>, <<3>>),
   point_coefficients |-> Dict(<<1>>, <<1>>, <<1>>),
   poly_coefficients |-> Dict(<<2>>, <<1>>, <<1>>),
   translation_factor |-> List(<<1, 2, 3>>),
   scale_factor |-> List(<<2, 2, 2>>),
   polynomial_degree |-> <<1>>,
   nugget |-> <<0>>]

AbsentOf(f) == IF f \in ArrayFields THEN Absent ELSE <<>>

\* The structure with the fields of A absent.
Without(A) ==
  [f \in ArrayFields \cup SettingFields |->
     IF f \in A THEN AbsentOf(f) ELSE BaseModel[f]]

NoModel == Without(ArrayFields \cup SettingFields)

\* The persisted structures the solver is exercised with: any set of fields
\* absent, and any one array field holding any value.
PersistedModels ==
  {Without(A) : A \in SUBSET (ArrayFields \cup SettingFields)} \cup
  {[BaseModel EXCEPT ![f] = v] : f \in ArrayFields, v \in FieldValues}

(***************************************************************************)
(* The environment of one request: what each call of the solver and of    *)
(* the file system does.  "skipped" marks a call the request never made.   *)
(***************************************************************************)
SolverOutcomes == {"ok", "ValueError", "Exception"}

Failures == {"ValueError", "Exception"}

NoRun ==
  [fit |-> "skipped", evaluate |-> "skipped", ndim |-> 0, out |-> <<>>,
   tempfile |-> "skipped", extract |-> "skipped", load |-> "skipped",
   exists |-> FALSE, unlink |-> "skipped", model |-> NoModel]

\* RBFInterpolator(...) raised.
FitFailed == {[NoRun EXCEPT !.fit = o] : o \in Failures}

Fitted == [NoRun EXCEPT !.fit = "ok"]

\* fit, then evaluate on n points: the solver returns an n x 1 matrix
\* (ndim 2) or a flat n-vector (ndim 1) of values, out[i] for point i.
EvaluateRuns(n, shapes, values) ==
  FitFailed \cup
  {[Fitted EXCEPT !.evaluate = o] : o \in Failures} \cup
  {[Fitted EXCEPT !.evaluate = "ok", !.ndim = d, !.out = v] :
     d \in shapes, v \in [1..n -> values]}

\* fit, then extract_coefficients.  tempfile is NamedTemporaryFile's outcome
\* (it raises when no fresh name is free, and may raise otherwise if
\* tempfail), extract is save_model's, load that of open + json.load, exists
\* tells whether the path exists when the finally block runs (a failed save
\* or open may leave none if gone), unlink is os.unlink's outcome.
ExtractRuns(free, tempfail, gone, unlinks, models) ==
  LET T == [Fitted EXCEPT !.tempfile = "ok", !.exists = TRUE]
      Cleanup(S) == {[s EXCEPT !.unlink = u] : s \in S, u \in unlinks} \cup
                    (IF gone THEN {[s EXCEPT !.exists = FALSE] : s \in S} ELSE {})
  IN
  FitFailed \cup
  (IF tempfail \/ ~free THEN {[Fitted EXCEPT !.tempfile = "Exception"]} ELSE {}) \cup
  (IF ~free THEN {}
   ELSE Cleanup({[T EXCEPT !.extract = o] : o \in Failures}) \cup
        Cleanup({[T EXCEPT !.extract = "ok", !.load = "Exception"]}) \cup
        {[T EXCEPT !.extract = "ok", !.load = "ValueError", !.unlink = u] :
           u \in unlinks} \cup
        {[T EXCEPT !.extract = "ok", !.load = "ok", !.model = m, !.unlink = u] :
           m \in models, u \in unlinks})

(***************************************************************************)
(* app/rbf_service.py                                                      *)
(***************************************************************************)
\* Faulty variant: int(c), which rounds towards zero.
Floor_Truncate(c) ==
  IF c >= 0 THEN (c \div Scale) * Scale ELSE -(((-c) \div Scale) * Scale)

\* np.floor / np.ceil of a fixed-point number, again in units of 1/Scale.
Floor(c) == (c \div Scale) * Scale

Ceil(c) == (-((-c) \div Scale)) * Scale

Min(S) == CHOOSE m \in S : \A v \in S : m <= v

Max(S) == CHOOSE m \in S : \A v \in S : v <= m

Column(intervals, axis) == {intervals[i][axis] : i \in 1..Len(intervals)}

\* np.concatenate((np.floor(np.min(points, axis=0)), np.ceil(np.max(points, axis=0))))
Extents(intervals) ==
  <<Floor(Min(Column(intervals, "x"))), Floor(Min(Column(intervals, "y"))),
    Floor(Min(Column(intervals, "z"))), Ceil(Max(Column(intervals, "x"))),
    Ceil(Max(Column(intervals, "y"))), Ceil(Max(Column(intervals, "z")))>>

\* The exception a failed call leaves the service function with.
Raised(o) == IF o = "ValueError" THEN "ValueError" ELSE "Exception"

\* fit_rbf_from_intervals: the calls made, "ok" or the exception raised, the
\* accuracy handed to FittingAccuracy(...) and the extents.
fit_rbf_from_intervals(intervals, fitting_accuracy, s) ==
  IF intervals = <<>>
  THEN [calls |-> <<>>, result |-> "ValueError", handed |-> <<>>, extents |-> <<>>]
  ELSE [calls |-> <<"fit">>, result |-> s.fit, handed |-> <<fitting_accuracy>>,
        extents |-> Extents(intervals)]

\* tempfile picks a name that does not exist.
TempPath(fs) == Min((1..MaxPaths) \ fs)

\* Faulty variant: os.unlink after json.load instead of in a finally block.
extract_coefficients_NoFinally(temp_path, s) ==
  IF s.tempfile # "ok"
  THEN [calls |-> <<"tempfile">>, result |-> "Exception", data |-> NoModel,
        log |-> <<>>, left |-> {}]
  ELSE IF s.extract # "ok"
  THEN [calls |-> <<"tempfile", "extract">>, result |-> Raised(s.extract),
        data |-> NoModel, log |-> <<>>,
        left |-> IF s.exists THEN {temp_path} ELSE {}]
  ELSE IF s.load # "ok"
  THEN [calls |-> <<"tempfile", "extract", "load">>, result |-> Raised(s.load),
        data |-> NoModel, log |-> <<>>,
        left |-> IF s.exists THEN {temp_path} ELSE {}]
  ELSE IF s.unlink = "ok"
  THEN [calls |-> <<"tempfile", "extract", "load", "unlink">>, result |-> "ok",
        data |-> s.model, log |-> <<>>, left |-> {}]
  ELSE [calls |-> <<"tempfile", "extract", "load", "unlink">>, result |-> "ok",
        data |-> s.model, log |-> <<"Failed to clean up temp file">>,
        left |-> {temp_path}]

\* Faulty variant: os.unlink in the finally block without its try/except, so
\* that its OSError replaces the primary result.
extract_coefficients_UnlinkRaises(temp_path, s) ==
  IF s.tempfile # "ok"
  THEN [calls |-> <<"tempfile">>, result |-> "Exception", data |-> NoModel,
        log |-> <<>>, left |-> {}]
  ELSE LET try == IF s.extract # "ok"
                  THEN [calls |-> <<"tempfile", "extract">>,
                        result |-> Raised(s.extract), data |-> NoModel]
                  ELSE IF s.load # "ok"
                  THEN [calls |-> <<"tempfile", "extract", "load">>,
                        result |-> Raised(s.load), data |-> NoModel]
                  ELSE [calls |-> <<"tempfile", "extract", "load">>,
                        result |-> "ok", data |-> s.model]
       IN
       IF ~s.exists
       THEN [calls |-> try.calls, result |-> try.result, data |-> try.data,
             log |-> <<>>, left |-> {}]
       ELSE IF s.unlink = "ok"
       THEN [calls |-> try.calls \o <<"unlink">>, result |-> try.result,
             data |-> try.data, log |-> <<>>, left |-> {}]
       ELSE [calls |-> try.calls \o <<"unlink">>, result |-> "Exception",
             data |-> NoModel, log |-> <<>>, left |-> {temp_path}]

\* extract_coefficients: create the temporary file, save_model into it, read
\* it back; the finally block unlinks the path if it exists and logs a
\* warning if os.unlink raises OSError.
extract_coefficients(temp_path, s) ==
  IF s.tempfile # "ok"
  THEN [calls |-> <<"tempfile">>, result |-> "Exception", data |-> NoModel,
        log |-> <<>>, left |-> {}]
  ELSE LET try == IF s.extract # "ok"
                  THEN [calls |-> <<"tempfile", "extract">>,
                        result |-> Raised(s.extract), data |-> NoModel]
                  ELSE IF s.load # "ok"
                  THEN [calls |-> <<"tempfile", "extract", "load">>,
                        result |-> Raised(s.load), data |-> NoModel]
                  ELSE [calls |-> <<"tempfile", "extract", "load">>,
                        result |-> "ok", data |-> s.model]
       IN
       IF ~s.exists
       THEN [calls |-> try.calls, result |-> try.result, data |-> try.data,
             log |-> <<>>, left |-> {}]
       ELSE IF s.unlink = "ok"
       THEN [calls |-> try.calls \o <<"unlink">>, result |-> try.result,
             data |-> try.data, log |-> <<>>, left |-> {}]
       ELSE [calls |-> try.calls \o <<"unlink">>, result |-> try.result,
             data |-> try.data, log |-> <<"Failed to clean up temp file">>,
             left |-> {temp_path}]

\* The array rbf.evaluate returned: n rows of one column, or n numbers.
SolverArray(s) ==
  IF s.ndim = 2 THEN [i \in 1..Len(s.out) |-> <<s.out[i]>>] ELSE s.out

\* Faulty variant: interpolated[0, :].tolist(), the first row instead of the
\* first column.
tolist_FirstRow(ndim, interpolated) ==
  IF ndim = 2 THEN [i \in 1..Len(interpolated[1]) |-> interpolated[1][i]]
  ELSE interpolated

\* if interpolated.ndim == 2: interpolated[:, 0].tolist() else interpolated.tolist()
tolist(ndim, interpolated) ==
  IF ndim = 2 THEN [i \in 1..Len(interpolated) |-> interpolated[i][1]]
  ELSE interpolated

\* evaluate_at_query_points: emptiness checks, fit, evaluate, flatten.
evaluate_at_query_points(intervals, query_points, fitting_accuracy, s) ==
  IF intervals = <<>> \/ query_points = <<>>
  THEN [calls |-> <<>>, result |-> "ValueError", handed |-> <<>>,
        extents |-> <<>>, values |-> <<>>]
  ELSE LET f == fit_rbf_from_intervals(intervals, fitting_accuracy, s) IN
       IF f.result # "ok"
       THEN [calls |-> f.calls, result |-> f.result, handed |-> f.handed,
             extents |-> <<>>, values |-> <<>>]
       ELSE IF s.evaluate # "ok"
       THEN [calls |-> f.calls \o <<"evaluate">>, result |-> s.evaluate,
             handed |-> f.handed, extents |-> <<>>, values |-> <<>>]
       ELSE [calls |-> f.calls \o <<"evaluate">>, result |-> "ok",
             handed |-> f.handed, extents |-> f.extents,
             values |-> tolist(s.ndim, SolverArray(s))]

(***************************************************************************)
(* app/main.py: the handler bodies.  Each returns the response and the     *)
(* phases the body went through, "handler" first.                          *)
(***************************************************************************)
root_body == Outcome(Response(200, "", [service |-> "geology-engine", docs |-> "/docs"]),
                     <<"handler">>)

health_body == Outcome(Response(200, "", [status |-> "ok", service |-> "geology-engine"]),
                       <<"handler">>)

me_body(user) ==
  Outcome(Response(200, "", [user_id |-> user.id, email |-> user.email, role |-> user.role]),
          <<"handler">>)

\* rbf_interpolate: no try/except, so whatever is raised is unhandled.
rbf_interpolate_body(body, s) ==
  IF np_array_raises(body.training_points) \/ np_array_raises(body.test_points)
  THEN Outcome(Unhandled, <<"handler">>)
  ELSE LET tp == np_shape(body.training_points)
           te == np_shape(body.test_points)
       IN
       IF tp[1] # Len(body.training_values)
       THEN Outcome(Response(422, "Number of training points must match number of training values", <<>>),
                    <<"handler">>)
       ELSE IF Len(tp) < 2 \/ Len(te) < 2
       THEN Outcome(Unhandled, <<"handler">>)
       ELSE IF tp[2] # te[2]
       THEN Outcome(Response(422, "Training and test points must have same dimensionality", <<>>),
                    <<"handler">>)
       ELSE IF s.fit # "ok"
       THEN Outcome(Unhandled, <<"handler", "fit">>)
       ELSE IF s.evaluate # "ok"
       THEN Outcome(Unhandled, <<"handler", "fit", "evaluate">>)
       ELSE Outcome(Response(200, "", [interpolated_values |->
                                         tolist(s.ndim, SolverArray(s))]),
                    <<"handler", "fit", "evaluate">>)

\* except ValueError -> 422 with str(e); except Exception -> 500 with the
\* route's prefix.
Translate(raised, prefix) ==
  IF raised = "ValueError" THEN Response(422, "solver message", <<>>)
  ELSE Response(500, prefix, <<>>)

\* data[a:b] for 0 <= a <= b: the slice stops at the end of data.
Slice(data, a, b) ==
  LET lo == IF a < Len(data) THEN a ELSE Len(data)
      hi == IF b < Len(data) THEN b ELSE Len(data)
  IN [k \in 1..(hi - lo) |-> data[lo + k]]

\* Faulty variant: dict.get(key), which yields None for an absent key.
Get_NoDefault(v, default) == IF v.kind = "absent" THEN Null ELSE v

\* dict.get(key, default)
Get(v, default) == IF v.kind = "absent" THEN default ELSE v

\* extract_array: a dict with "data" is cut into nrows rows of ncols
\* elements (nrows and ncols default to 1); anything else is returned as is.
extract_array(array_dict) ==
  IF array_dict.kind = "dict" /\ array_dict.keyed
  THEN LET nrows == IF array_dict.nrows = <<>> THEN 1 ELSE array_dict.nrows[1]
           ncols == IF array_dict.ncols = <<>> THEN 1 ELSE array_dict.ncols[1]
       IN Matrix([i \in 1..nrows |->
                    Slice(array_dict.data, (i - 1) * ncols, i * ncols)])
  ELSE array_dict

\* response_data of rbf_coefficients.
response_data(model_data, extents) ==
  [source_points |-> extract_array(Get(model_data.points, List(<<>>))),
   point_coefficients |->
     extract_array(Get(model_data.point_coefficients, List(<<>>))),
   poly_coefficients |-> extract_array(Get(model_data.poly_coefficients, Null)),
   kernel_type |-> "linear",
   polynomial_degree |-> IF model_data.polynomial_degree = <<>> THEN 0
                         ELSE model_data.polynomial_degree[1],
   nugget |-> IF model_data.nugget = <<>> THEN 0 ELSE model_data.nugget[1],
   translation_factor |->
     extract_array(Get(model_data.translation_factor, List(<<0, 0, 0>>))),
   scale_factor |->
     extract_array(Get(model_data.scale_factor, List(<<1, 1, 1>>))),
   extents |-> extents]

\* list[list[float]]
IsMatrix(v) == v.kind = "matrix" \/ (v.kind = "list" /\ v.data = <<>>)

\* list[float]
IsVector(v) == v.kind = "list" \/ (v.kind = "matrix" /\ v.rows = <<>>)

\* RBFCoefficientsResponse(**response_data) validates.
CoefficientsResponseValid(data) ==
  /\ IsMatrix(data.source_points)
  /\ IsMatrix(data.point_coefficients)
  /\ data.poly_coefficients.kind = "null" \/ IsMatrix(data.poly_coefficients)
  /\ IsVector(data.translation_factor)
  /\ IsVector(data.scale_factor)

\* rbf_coefficients; fs is the set of paths in the temporary directory.
rbf_coefficients_body(body, s, fs) ==
  LET f == fit_rbf_from_intervals(body.intervals,
                                  AccuracyField(body.fitting_accuracy), s)
  IN
  IF f.result # "ok"
  THEN [Outcome(Translate(Raised(f.result), "RBF fitting failed"),
                <<"handler">> \o f.calls) EXCEPT !.handed = f.handed]
  ELSE LET x == extract_coefficients(TempPath(fs), s)
           data == response_data(x.data, f.extents)
           answer == IF x.result # "ok"
                     THEN Translate(Raised(x.result), "RBF fitting failed")
                     ELSE IF ~CoefficientsResponseValid(data)
                     THEN Translate("ValueError", "RBF fitting failed")
                     ELSE Response(200, "", data)
       IN [Outcome(answer, <<"handler">> \o f.calls \o x.calls)
             EXCEPT !.handed = f.handed, !.log = x.log, !.left = x.left]

rbf_evaluate_body(body, s) ==
  LET e == evaluate_at_query_points(body.intervals, body.query_points,
                                    AccuracyField(body.fitting_accuracy), s)
  IN
  IF e.result # "ok"
  THEN [Outcome(Translate(Raised(e.result), "RBF evaluation failed"),
                <<"handler">> \o e.calls) EXCEPT !.handed = e.handed]
  ELSE [Outcome(Response(200, "", [values |-> e.values, extents |-> e.extents]),
                <<"handler">> \o e.calls) EXCEPT !.handed = e.handed]


(***************************************************************************)
(* Routing: the dependencies of a route run first, then the body is        *)
(* validated against the route's schema, then the handler body runs.       *)
(***************************************************************************)
\* Faulty variant: /rbf/interpolate declared with Depends(get_supabase_user).
Protected_Interpolate ==
  {"health_auth", "me", "rbf_coefficients", "rbf_evaluate", "rbf_interpolate"}

\* The routes declared with user: SupabaseUser = Depends(get_supabase_user).
Protected == {"health_auth", "me", "rbf_coefficients", "rbf_evaluate"}

\* The routes that take a request model.
WithBody == {"rbf_interpolate", "rbf_coefficients", "rbf_evaluate"}

\* Faulty variant: /rbf/evaluate declared without Depends(get_supabase_user).
Authorize_EvaluateOpen(endpoint, key, header, t) ==
  IF endpoint \in {"health_auth", "me", "rbf_coefficients"}
  THEN Verify(key, header, t) ELSE NotInvoked

\* The outcome of a route's dependencies for one request.
Authorize(endpoint, key, header, t) ==
  IF endpoint \in Protected THEN Verify(key, header, t) ELSE NotInvoked

DependencyPhases(endpoint, header) ==
  IF endpoint \notin Protected THEN <<>>
  ELSE IF BearerAccepts(header) THEN <<"bearer", "verify">>
  ELSE <<"bearer">>

\* Faulty variant: the body is validated before the dependencies run.
Serve_SchemaFirst(endpoint, key, header, t, valid, outcome) ==
  LET a == Authorize(endpoint, key, header, t)
      pre == DependencyPhases(endpoint, header)
      sch == IF endpoint \in WithBody THEN <<"schema">> ELSE <<>>
  IN
  IF ~valid
  THEN [auth |-> NotInvoked, resp |-> SchemaError, phases |-> sch,
        handed |-> <<>>, log |-> <<>>, left |-> {}]
  ELSE IF a.tag \notin {"NotInvoked", "Authenticated"}
  THEN [auth |-> a, resp |-> Response(a.status, a.detail, <<>>), phases |-> sch \o pre,
        handed |-> <<>>, log |-> <<>>, left |-> {}]
  ELSE [auth |-> a, resp |-> outcome.resp, phases |-> sch \o pre \o outcome.phases,
        handed |-> outcome.handed, log |-> outcome.log, left |-> outcome.left]

\* One request through a route: valid is the schema's verdict on the body,
\* outcome what the handler body does if it is reached.
Serve(endpoint, key, header, t, valid, outcome) ==
  LET a == Authorize(endpoint, key, header, t)
      pre == DependencyPhases(endpoint, header)
      sch == IF endpoint \in WithBody THEN <<"schema">> ELSE <<>>
  IN
  IF a.tag \notin {"NotInvoked", "Authenticated"}
  THEN [auth |-> a, resp |-> Response(a.status, a.detail, <<>>), phases |-> pre,
        handed |-> <<>>, log |-> <<>>, left |-> {}]
  ELSE IF ~valid
  THEN [auth |-> a, resp |-> SchemaError, phases |-> pre \o sch,
        handed |-> <<>>, log |-> <<>>, left |-> {}]
  ELSE [auth |-> a, resp |-> outcome.resp, phases |-> pre \o sch \o outcome.phases,
        handed |-> outcome.handed, log |-> outcome.log, left |-> outcome.left]

\* The runs the environment can present to a request: a request that never
\* calls the solver (probe: the request served with no run) sees none.
RunsFor(runs, probe) ==
  IF \E i \in 1..Len(probe.phases) : probe.phases[i] = "fit"
  THEN runs ELSE {NoRun}

NoRequest == [endpoint |-> "none", header |-> NoHeader, body |-> <<>>]

Idle == req.endpoint = "none"

\* The headers each group of routes is exercised with.
IdentityHeaders == HeadersOf(Tokens)

DataHeaders == HeadersOf(DataTokens)

\* The public routes: no header, a header that is no JWT, a JWT signed with
\* the project secret.
PublicHeaders ==
  {NoHeader} \cup
  [present : {TRUE}, scheme : {"Bearer"},
   credentials : {t \in DataTokens :
                    \/ t.form = "junk"
                    \/ /\ t.form = "jwt" /\ t.alg = "HS256" /\ t.key = "k1"
                       /\ t.claims = [NoClaims EXCEPT !.sub = <<"user-1">>,
                                                      !.exp = <<MaxTime>>]}]

\* The one header of an authenticated client.
AuthorizedHeaders ==
  {h \in PublicHeaders : h.present /\ h.credentials.form = "jwt"}

\* No request has been remembered.
NoEarlier == [set |-> FALSE, header |-> NoHeader, time |-> 0, auth |-> NotInvoked]

\* The requests that can be in flight at once.
Requests == {1, 2}

\* The names NamedTemporaryFile can draw: MaxPaths for the requests in flight
\* and one that a failed unlink may leave taken.
Names == 1..(MaxPaths + 1)

\* A path of the temporary directory at which there is no file.
NoFile == [exists |-> FALSE, creator |-> 0, content |-> <<>>]

\* No request in this slot.
IdleSlot ==
  [pc |-> "idle", header |-> NoHeader, body |-> <<>>, run |-> NoRun,
   seen |-> NoRun, path |-> 0, read |-> 0, deleted |-> 0, resp |-> NoResponse,
   log |-> <<>>]

Record(endpoint, header, body, run, served) ==
  /\ req' = [endpoint |-> endpoint, header |-> header, body |-> body]
  /\ resp' = served.resp
  /\ auth' = served.auth
  /\ phases' = served.phases
  /\ solver' = run
  /\ handed' = served.handed
  /\ log' = served.log
  /\ files' = files \cup served.left
  /\ UNCHANGED <<secret, now, earlier, inflight, disk>>

Init ==
  /\ secret \in Secrets
  /\ now = 0
  /\ req = NoRequest
  /\ resp = NoResponse
  /\ auth = NotInvoked
  /\ phases = <<>>
  /\ solver = NoRun
  /\ handed = <<>>
  /\ log = <<>>
  /\ files = {}
  /\ earlier = NoEarlier
  /\ inflight = [r \in Requests |-> IdleSlot]
  /\ disk = [p \in Names |-> NoFile]

\* GET /
root ==
  /\ Idle
  /\ \E header \in PublicHeaders :
       Record("root", header, <<>>, NoRun,
              Serve("root", secret, header, now, TRUE, root_body))

\* GET /health
health ==
  /\ Idle
  /\ \E header \in PublicHeaders :
       Record("health", header, <<>>, NoRun,
              Serve("health", secret, header, now, TRUE, health_body))

\* GET /health/auth for a client that sends one of the given headers.
HealthAuth(headers) ==
  /\ Idle
  /\ \E header \in headers :
       Record("health_auth", header, <<>>, NoRun,
              Serve("health_auth", secret, header, now, TRUE, health_body))

health_auth == HealthAuth(IdentityHeaders)

\* GET /me for a client that sends one of the given headers.
Me(headers) ==
  /\ Idle
  /\ \E header \in headers :
       Record("me", header, <<>>, NoRun,
              Serve("me", secret, header, now, TRUE,
                    me_body(Authorize("me", secret, header, now).user)))

me == Me(IdentityHeaders)

\* POST /rbf/interpolate, with the solver returning arrays of the given
\* shapes over the given values.
Interpolate(headers, bodies, shapes, values) ==
  /\ Idle
  /\ \E header \in headers, body \in bodies :
       \E s \in RunsFor(EvaluateRuns(Len(body.test_points), shapes, values),
                        Serve("rbf_interpolate", secret, header, now, TRUE,
                              rbf_interpolate_body(body, NoRun))) :
         Record("rbf_interpolate", header, body, s,
                Serve("rbf_interpolate", secret, header, now, TRUE,
                      rbf_interpolate_body(body, s)))

\* POST /rbf/coefficients, with the file system and the persisted structures
\* behaving as given.
Coefficients(headers, bodies, tempfail, gone, unlinks, models) ==
  /\ Idle
  /\ \E header \in headers, body \in bodies :
       \E s \in RunsFor(ExtractRuns((1..MaxPaths) \ files # {}, tempfail, gone,
                                    unlinks, models),
                        Serve("rbf_coefficients", secret, header, now,
                              CoefficientsRequestValid(body),
                              rbf_coefficients_body(body, NoRun, files))) :
         Record("rbf_coefficients", header, body, s,
                Serve("rbf_coefficients", secret, header, now,
                      CoefficientsRequestValid(body),
                      rbf_coefficients_body(body, s, files)))

\* POST /rbf/evaluate
Evaluate(headers, bodies, shapes, values) ==
  /\ Idle
  /\ \E header \in headers, body \in bodies :
       \E s \in RunsFor(EvaluateRuns(Len(body.query_points), shapes, values),
                        Serve("rbf_evaluate", secret, header, now,
                              EvaluateRequestValid(body),
                              rbf_evaluate_body(body, NoRun))) :
         Record("rbf_evaluate", header, body, s,
                Serve("rbf_evaluate", secret, header, now,
                      EvaluateRequestValid(body), rbf_evaluate_body(body, s)))

\* The routes under every credential and every body shape; the solver
\* returns N x 1 zeros, persists BaseModel, and the file system works.
rbf_interpolate == Interpolate(PublicHeaders, InterpolateBodies, {2}, {0})

rbf_coefficients ==
  Coefficients(DataHeaders, CoefficientsBodies, FALSE, FALSE, {"ok"}, {BaseModel})

rbf_evaluate == Evaluate(DataHeaders, EvaluateBodies, {2}, {0})

\* The response has been sent; the server waits for the next request.
Complete ==
  /\ ~Idle
  /\ req' = NoRequest
  /\ resp' = NoResponse
  /\ auth' = NotInvoked
  /\ phases' = <<>>
  /\ solver' = NoRun
  /\ handed' = <<>>
  /\ log' = <<>>
  /\ UNCHANGED <<secret, now, files, earlier, inflight, disk>>

\* Time passes between requests.
Tick ==
  /\ Idle
  /\ now < MaxTime
  /\ now' = now + 1
  /\ UNCHANGED <<secret, req, resp, auth, phases, solver, handed, log, files,
                 earlier, inflight, disk>>

Next ==
  \/ root
  \/ health
  \/ health_auth
  \/ me
  \/ rbf_interpolate
  \/ rbf_coefficients
  \/ rbf_evaluate
  \/ Complete
  \/ Tick

Spec == Init /\ [][Next]_vars

TypeOK ==
  /\ secret \in Secrets
  /\ now \in Times
  /\ resp.status \in {0, 200, 401, 422, 500}
  /\ files \subseteq 1..MaxPaths


(***************************************************************************)
(* The fitting and evaluating routes for an authenticated client, over     *)
(* coordinates of either sign that are and are not whole numbers, and with *)
(* the solver returning either array shape over distinct values.           *)
(***************************************************************************)
FitIntervals == [x : {-3, 2}, y : {-1, 1}, z : {0, 3}, value : {1}]

OutValues == {1, 2}

FitCoefficientsBodies ==
  [intervals : SeqUpTo(FitIntervals, MaxItems), fitting_accuracy : {<<"omitted">>}]

FitEvaluateBodies ==
  [intervals : SeqUpTo(FitIntervals, MaxItems),
   query_points : SeqUpTo(QueryValues, MaxItems),
   fitting_accuracy : {<<"omitted">>}]

FitInterpolateBodies ==
  [training_points : {<< <<0>>, <<0>> >>}, training_values : {<<0, 0>>},
   test_points : SeqUpTo({<<0>>}, MaxItems)]

rbf_coefficients_fit ==
  Coefficients(AuthorizedHeaders, FitCoefficientsBodies, FALSE, FALSE, {"ok"},
               {BaseModel})

rbf_evaluate_fit ==
  Evaluate(AuthorizedHeaders, FitEvaluateBodies, {1, 2}, OutValues)

rbf_interpolate_fit ==
  Interpolate({NoHeader}, FitInterpolateBodies, {1, 2}, OutValues)

NextFit ==
  \/ rbf_coefficients_fit
  \/ rbf_evaluate_fit
  \/ rbf_interpolate_fit
  \/ Complete

SpecFit == Init /\ [][NextFit]_vars

(***************************************************************************)
(* /rbf/coefficients for an authenticated client and one body, with every *)
(* behaviour of the file system and every persisted structure.             *)
(***************************************************************************)
ExtractBodies ==
  [intervals : {<<iv>> : iv \in IntervalValues}, fitting_accuracy : {<<"omitted">>}]

rbf_coefficients_extract ==
  Coefficients(AuthorizedHeaders, ExtractBodies, TRUE, TRUE, {"ok", "OSError"},
               PersistedModels)

NextExtract ==
  \/ rbf_coefficients_extract
  \/ Complete

SpecExtract == Init /\ [][NextExtract]_vars

(***************************************************************************)
(* The same credentials presented again and again on GET /health/auth and  *)
(* GET /me while the clock advances; any served request can be remembered  *)
(* and compared with a later one.                                          *)
(***************************************************************************)
\* HS256 tokens under either key with and without sub, exp, nbf and aud, and
\* the strings that are no JWT.
RepeatTokens ==
  {t \in DataTokens : t.form # "jwt" \/ t.alg = "HS256"}

RepeatHeaders == HeadersOf(RepeatTokens)

health_auth_again == HealthAuth(RepeatHeaders)

me_again == Me(RepeatHeaders)

\* The request just served on a protected route is the one remembered.
Remember ==
  /\ req.endpoint \in Protected
  /\ earlier' = [set |-> TRUE, header |-> req.header, time |-> now, auth |-> auth]
  /\ earlier' # earlier
  /\ UNCHANGED <<secret, now, req, resp, auth, phases, solver, handed, log,
                 files, inflight, disk>>

NextAuth ==
  \/ health_auth_again
  \/ me_again
  \/ Remember
  \/ Complete
  \/ Tick

SpecAuth == Init /\ [][NextAuth]_vars

(***************************************************************************)
(* Concurrent POST /rbf/coefficients.  Each request in flight runs           *)
(* extract_coefficients one file-system call at a time, interleaved with     *)
(* the other's, on one temporary directory.  save_model, open and os.unlink  *)
(* act on whatever file the path names at that moment; only the requests     *)
(* themselves touch the directory.                                           *)
(***************************************************************************)

\* Faulty variant: the temporary file has one fixed name.
FreshNames_Fixed(d) == {1}

\* NamedTemporaryFile opens its file with O_EXCL under a random name, so it
\* creates a name that no existing file has.
FreshNames(d) == {p \in Names : ~d[p].exists}

\* Two fits persist different structures.
ConcurrentModels == {BaseModel, [BaseModel EXCEPT !.nugget = <<1>>]}

ConcurrentRuns ==
  ExtractRuns(TRUE, TRUE, FALSE, {"ok", "OSError"}, ConcurrentModels)

ConcurrentHeaders == AuthorizedHeaders \cup {NoHeader}

\* What the route answers to a request that meets the outcomes s with no
\* other request in flight.
Alone(header, body, s) ==
  Serve("rbf_coefficients", secret, header, now, CoefficientsRequestValid(body),
        rbf_coefficients_body(body, s, {}))

\* The files nobody holds any more, and the requests whose unlink will fail.
Leaked ==
  {p \in Names : disk[p].exists /\ \A r \in Requests : inflight[r].path # p}

Leaking ==
  {r \in Requests : inflight[r].path # 0 /\ inflight[r].run.unlink = "OSError"}

Untouched ==
  UNCHANGED <<secret, now, req, resp, auth, phases, solver, handed, log, files,
              earlier>>

\* The request arrives: dependencies, validation and the fit touch nothing
\* shared; then NamedTemporaryFile(delete=False) creates the file.  An unlink
\* that will fail is admitted only while a spare name is left for it, so that
\* the names never run out.
Arrive(r) ==
  /\ inflight[r].pc = "idle"
  /\ \E header \in ConcurrentHeaders, body \in ExtractBodies :
       \E s \in RunsFor(ConcurrentRuns, Alone(header, body, NoRun)) :
         LET slot == [IdleSlot EXCEPT !.header = header, !.body = <<body>>,
                                      !.run = s]
             failed == [Fitted EXCEPT !.tempfile = "Exception"]
         IN
         /\ s.unlink = "OSError"
              => Cardinality(Leaked) + Cardinality(Leaking)
                   < Cardinality(Names) - MaxPaths
         /\ IF s.tempfile = "skipped"
            THEN /\ inflight' = [inflight EXCEPT ![r] =
                      [slot EXCEPT !.pc = "done", !.seen = s,
                                   !.resp = Alone(header, body, s).resp]]
                 /\ disk' = disk
            ELSE IF s.tempfile # "ok" \/ FreshNames(disk) = {}
            THEN /\ inflight' = [inflight EXCEPT ![r] =
                      [slot EXCEPT !.pc = "done", !.seen = failed,
                                   !.resp = Alone(header, body, failed).resp]]
                 /\ disk' = disk
            ELSE \E p \in FreshNames(disk) :
                   /\ inflight' = [inflight EXCEPT ![r] =
                        [slot EXCEPT !.pc = "save", !.path = p,
                                     !.seen = [Fitted EXCEPT !.tempfile = "ok",
                                                             !.exists = TRUE]]]
                   /\ disk' = [disk EXCEPT ![p] =
                        [exists |-> TRUE,
                         creator |-> IF disk[p].exists THEN disk[p].creator ELSE r,
                         content |-> <<>>]]
  /\ Untouched

\* interpolator.save_model(temp_path)
Save(r) ==
  LET s == inflight[r] IN
  /\ s.pc = "save"
  /\ IF s.run.extract = "ok"
     THEN /\ disk' = [disk EXCEPT ![s.path] =
                [exists |-> TRUE,
                 creator |-> IF disk[s.path].exists THEN disk[s.path].creator ELSE r,
                 content |-> <<[load |-> s.run.load, model |-> s.run.model]>>]]
          /\ inflight' = [inflight EXCEPT ![r].pc = "load",
                                          ![r].seen.extract = "ok"]
     ELSE /\ disk' = disk
          /\ inflight' = [inflight EXCEPT ![r].pc = "cleanup",
                                          ![r].seen.extract = s.run.extract]
  /\ Untouched

\* with open(temp_path, "r") as f: json.load(f)
Load(r) ==
  LET s == inflight[r]
      f == disk[s.path]
      got == IF ~f.exists THEN [load |-> "Exception", model |-> NoModel]
             ELSE IF f.content = <<>> THEN [load |-> "ValueError", model |-> NoModel]
             ELSE f.content[1]
  IN
  /\ s.pc = "load"
  /\ inflight' = [inflight EXCEPT ![r].pc = "cleanup",
                                  ![r].seen.load = got.load,
                                  ![r].seen.model = got.model,
                                  ![r].read = IF f.exists THEN f.creator ELSE 0]
  /\ disk' = disk
  /\ Untouched

\* The finally block, then the rest of the handler: the response is built
\* from what this request's own calls returned.
Cleanup(r) ==
  LET s == inflight[r]
      f == disk[s.path]
      u == IF f.exists THEN s.run.unlink ELSE "skipped"
      seen == [s.seen EXCEPT !.exists = f.exists, !.unlink = u]
      served == Alone(s.header, s.body[1], seen)
  IN
  /\ s.pc = "cleanup"
  /\ disk' = IF f.exists /\ u = "ok" THEN [disk EXCEPT ![s.path] = NoFile] ELSE disk
  /\ inflight' = [inflight EXCEPT ![r] =
       [s EXCEPT !.pc = "done", !.seen = seen, !.path = 0,
                 !.deleted = IF f.exists /\ u = "ok" THEN f.creator ELSE 0,
                 !.resp = served.resp, !.log = served.log]]
  /\ Untouched

\* The response is sent.
Finish(r) ==
  /\ inflight[r].pc = "done"
  /\ inflight' = [inflight EXCEPT ![r] = IdleSlot]
  /\ disk' = disk
  /\ Untouched

NextConcurrent ==
  \/ \E r \in Requests : Arrive(r)
  \/ \E r \in Requests : Save(r)
  \/ \E r \in Requests : Load(r)
  \/ \E r \in Requests : Cleanup(r)
  \/ \E r \in Requests : Finish(r)

SpecConcurrent == Init /\ [][NextConcurrent]_vars

(***************************************************************************)
(* Properties.  Each is stated on the state a route action leaves: the     *)
(* request it served, the verifier's outcome, the phases the request went  *)
(* through and the response.                                               *)
(***************************************************************************)
Went(p) == \E i \in 1..Len(phases) : phases[i] = p

\* The credential of the request's Authorization header.
Presented == req.header.credentials

\* A protected route served a request whose credential reached get_supabase_user.
VerifierRan ==
  /\ req.endpoint \in {"health_auth", "me", "rbf_coefficients", "rbf_evaluate"}
  /\ Went("verify")

\* C1: on GET /health/auth, GET /me, POST /rbf/coefficients and POST
\* /rbf/evaluate the handler body runs, the solver is fitted and a 200 is
\* returned only if the verifier returned Authenticated for that request:
\* a bearer credential is present, the secret is non-empty, the token's HS256
\* signature verifies under the secret, exp and sub are present and the token
\* is not expired.
C1_HandlerOnlyIfAuthenticated ==
  (/\ req.endpoint \in {"health_auth", "me", "rbf_coefficients", "rbf_evaluate"}
   /\ (Went("handler") \/ Went("fit") \/ resp.status = 200))
  => /\ auth.tag = "Authenticated"
     /\ req.header.present
     /\ req.header.scheme = "Bearer"
     /\ secret # ""
     /\ Presented.form = "jwt"
     /\ Presented.alg = "HS256"
     /\ Presented.key = secret
     /\ Presented.claims.exp # <<>>
     /\ Presented.claims.sub # <<>>
     /\ Presented.claims.exp[1] > now

C1_Witness ==
  /\ req.endpoint = "rbf_evaluate"
  /\ auth.tag = "Authenticated"
  /\ Went("fit")
  /\ resp.status = 200

\* C2: with an empty configured secret the verifier rejects every credential
\* it is given (the empty string, junk, and tokens that would otherwise be
\* valid, expired or tampered) with ServerMisconfigured, status 500 and the
\* detail "SUPABASE_JWT_SECRET is not configured", and a request whose
\* credential reached the verifier is answered with exactly that.
C2_FailClosed ==
  secret = "" =>
    /\ Idle =>
         \A token \in Tokens :
           get_supabase_user(secret, token, now) =
             Rejected("ServerMisconfigured", 500, "SUPABASE_JWT_SECRET is not configured")
    /\ VerifierRan =>
         /\ auth.tag = "ServerMisconfigured"
         /\ resp.status = 500
         /\ resp.detail = "SUPABASE_JWT_SECRET is not configured"
         /\ ~Went("handler")

C2_Witness ==
  /\ secret = ""
  /\ VerifierRan
  /\ jwt_decode(Presented, "k1", now) = "ok"
  /\ resp.status = 500

\* C3: a token whose signature was made with a secret other than the
\* configured, non-empty one is rejected with InvalidToken (401, "Invalid
\* token") whatever its claims; the handler never runs and the response
\* carries nothing of the token's identity.
C3_ForeignSignatureRejected ==
  (/\ VerifierRan
   /\ secret # ""
   /\ Presented.form = "jwt"
   /\ Presented.key # secret)
  => /\ auth = Rejected("InvalidToken", 401, "Invalid token")
     /\ resp = Response(401, "Invalid token", <<>>)
     /\ ~Went("handler")

C3_Witness ==
  /\ VerifierRan
  /\ secret # ""
  /\ Presented.key # secret
  /\ jwt_decode(Presented, Presented.key, now) = "ok"
  /\ resp.status = 401

\* C4 as stated: every token with a valid signature under the configured
\* secret whose exp is in the past is rejected with TokenExpired.
C4_Original ==
  (/\ VerifierRan
   /\ secret # ""
   /\ Presented.form = "jwt"
   /\ Presented.alg = "HS256"
   /\ Presented.key = secret
   /\ Presented.claims.exp # <<>>
   /\ Presented.claims.exp[1] <= now)
  => auth.tag = "TokenExpired"

\* C4 (amended): a token with a valid HS256 signature under the configured
\* secret that carries sub, carries no nbf claim lying in the future, and
\* whose exp is in the past is rejected with TokenExpired (401, "Token has
\* expired"), which differs from the InvalidToken outcome; the handler does
\* not run.
C4_ExpiredRejected ==
  (/\ VerifierRan
   /\ secret # ""
   /\ Presented.form = "jwt"
   /\ Presented.alg = "HS256"
   /\ Presented.key = secret
   /\ Presented.claims.sub # <<>>
   /\ (Presented.claims.nbf = <<>> \/ Presented.claims.nbf[1] <= now)
   /\ Presented.claims.exp # <<>>
   /\ Presented.claims.exp[1] <= now)
  => /\ auth = Rejected("TokenExpired", 401, "Token has expired")
     /\ auth # Rejected("InvalidToken", 401, "Invalid token")
     /\ resp = Response(401, "Token has expired", <<>>)
     /\ ~Went("handler")

C4_Witness ==
  /\ req.endpoint = "rbf_coefficients"
  /\ auth.tag = "TokenExpired"
  /\ Presented.claims.aud # <<>>
  /\ resp.status = 401

\* C5 as stated, for tokens that carry no nbf claim: a token signed (HS256)
\* with the configured secret that carries sub and an exp in the future is
\* Authenticated with subject = sub, email = the email claim or null and
\* role = the role claim or null, and GET /me returns that identity.
C5_Original ==
  (/\ VerifierRan
   /\ secret # ""
   /\ Presented.form = "jwt"
   /\ Presented.alg = "HS256"
   /\ Presented.key = secret
   /\ Presented.claims.sub # <<>>
   /\ Presented.claims.nbf = <<>>
   /\ Presented.claims.exp # <<>>
   /\ Presented.claims.exp[1] > now)
  => /\ auth.tag = "Authenticated"
     /\ auth.user = [id |-> Presented.claims.sub[1],
                     email |-> Presented.claims.email,
                     role |-> Presented.claims.role]
     /\ req.endpoint = "me" =>
          resp = Response(200, "", [user_id |-> Presented.claims.sub[1],
                                    email |-> Presented.claims.email,
                                    role |-> Presented.claims.role])

\* C6: a token without exp or without sub is rejected with InvalidToken (401)
\* even when its signature is valid under the configured secret; a signed
\* token without exp is never treated as non-expiring.
C6_RequiredClaims ==
  (/\ VerifierRan
   /\ secret # ""
   /\ Presented.form = "jwt"
   /\ (Presented.claims.exp = <<>> \/ Presented.claims.sub = <<>>))
  => /\ auth = Rejected("InvalidToken", 401, "Invalid token")
     /\ resp.status = 401
     /\ ~Went("handler")

C6_Witness ==
  /\ VerifierRan
  /\ Presented.form = "jwt"
  /\ Presented.alg = "HS256"
  /\ Presented.key = secret
  /\ Presented.claims.exp = <<>>
  /\ Presented.claims.sub # <<>>
  /\ resp.status = 401

InterpolateWellFormed(body) ==
  /\ body.training_points # <<>>
  /\ body.test_points # <<>>
  /\ Len(body.training_points) = Len(body.training_values)
  /\ \A i \in 1..Len(body.training_points), j \in 1..Len(body.test_points) :
       /\ Len(body.training_points[i]) = Len(body.training_points[1])
       /\ Len(body.test_points[j]) = Len(body.training_points[1])

\* C8: GET /, GET /health and POST /rbf/interpolate never invoke the
\* credential verifier; GET / and GET /health answer 200, and a well-formed
\* /rbf/interpolate request on which the solver succeeds answers 200, with no
\* Authorization header, with any Authorization header, and with the secret
\* unconfigured.
C8_PublicRoutes ==
  req.endpoint \in {"root", "health", "rbf_interpolate"} =>
    /\ auth = NotInvoked
    /\ ~Went("bearer")
    /\ ~Went("verify")
    /\ req.endpoint \in {"root", "health"} => resp.status = 200
    /\ (/\ req.endpoint = "rbf_interpolate"
        /\ InterpolateWellFormed(req.body)
        /\ solver.fit = "ok"
        /\ solver.evaluate = "ok") => resp.status = 200

C8_Witness ==
  /\ req.endpoint = "rbf_interpolate"
  /\ secret = ""
  /\ req.header.present
  /\ Presented.form = "junk"
  /\ resp.status = 200

\* C9: for an authenticated request, an empty intervals list sent to
\* /rbf/coefficients or /rbf/evaluate, or an empty query_points list sent to
\* /rbf/evaluate, is answered 422 by the request schema: the handler body is
\* not entered and the solver is not invoked.
C9_EmptyListsRejected ==
  (/\ req.endpoint \in {"rbf_coefficients", "rbf_evaluate"}
   /\ auth.tag = "Authenticated"
   /\ \/ req.body.intervals = <<>>
      \/ (req.endpoint = "rbf_evaluate" /\ req.body.query_points = <<>>))
  => /\ resp.status = 422
     /\ ~Went("handler")
     /\ ~Went("fit")
     /\ ~Went("evaluate")
     /\ solver = NoRun

C9_Witness ==
  /\ req.endpoint = "rbf_evaluate"
  /\ auth.tag = "Authenticated"
  /\ req.body.intervals # <<>>
  /\ req.body.query_points = <<>>
  /\ resp.status = 422

\* The row widths of a list of points, and its column count when the rows
\* agree (an empty list has no columns).
Widths(points) == {Len(points[i]) : i \in 1..Len(points)}

ColumnCount(points) == IF points = <<>> THEN 0 ELSE Len(points[1])

\* C10 as stated: on /rbf/interpolate, for every schema-valid request (empty
\* lists included), a row count of training_points that differs from the
\* length of training_values is answered 422 CountMismatch; otherwise column
\* counts of training_points and test_points that differ are answered 422
\* DimensionMismatch; in both cases the solver is not invoked and the
\* response is not 200.
C10_Original ==
  req.endpoint = "rbf_interpolate" =>
    /\ Len(req.body.training_points) # Len(req.body.training_values) =>
         /\ resp = Response(422, "Number of training points must match number of training values", <<>>)
         /\ ~Went("fit")
    /\ (/\ Len(req.body.training_points) = Len(req.body.training_values)
        /\ Cardinality(Widths(req.body.training_points)) <= 1
        /\ Cardinality(Widths(req.body.test_points)) <= 1
        /\ ColumnCount(req.body.training_points) # ColumnCount(req.body.test_points)) =>
         /\ resp = Response(422, "Training and test points must have same dimensionality", <<>>)
         /\ ~Went("fit")

\* The coordinate of an interval on axis a (1 = x, 2 = y, 3 = z).
Coordinate(interval, a) ==
  IF a = 1 THEN interval.x ELSE IF a = 2 THEN interval.y ELSE interval.z

\* /rbf/coefficients or /rbf/evaluate answered 200 with extents.
ExtentsReturned ==
  /\ req.endpoint \in {"rbf_coefficients", "rbf_evaluate"}
  /\ resp.status = 200

\* C11: the extents returned by /rbf/coefficients and /rbf/evaluate for a
\* non-empty interval sequence are six whole numbers; on each axis the lower
\* one is at most every training coordinate and less than 1 below the
\* smallest, the upper one at least every training coordinate and less than
\* 1 above the largest: floor(min) and ceil(max).
C11_ExtentsRoundOutward ==
  ExtentsReturned =>
    LET e == resp.body.extents
        iv == req.body.intervals
    IN /\ Len(iv) >= 1
       /\ Len(e) = 6
       /\ \A a \in 1..3 :
            /\ e[a] % Scale = 0
            /\ e[a + 3] % Scale = 0
            /\ \A i \in 1..Len(iv) :
                 e[a] <= Coordinate(iv[i], a) /\ Coordinate(iv[i], a) <= e[a + 3]
            /\ \E i \in 1..Len(iv) : Coordinate(iv[i], a) - e[a] < Scale
            /\ \E i \in 1..Len(iv) : e[a + 3] - Coordinate(iv[i], a) < Scale

\* Two different training points, and an axis on which both bounds were
\* rounded away from the data.
C11_Witness ==
  /\ ExtentsReturned
  /\ Len(req.body.intervals) = 2
  /\ req.body.intervals[1] # req.body.intervals[2]
  /\ \E a \in 1..3 : \A i \in 1..2 :
       /\ resp.body.extents[a] < Coordinate(req.body.intervals[i], a)
       /\ Coordinate(req.body.intervals[i], a) < resp.body.extents[a + 3]

\* The values list of a successful evaluation, and the points it is for.
Evaluated ==
  /\ req.endpoint \in {"rbf_evaluate", "rbf_interpolate"}
  /\ resp.status = 200

ReturnedValues ==
  IF req.endpoint = "rbf_evaluate" THEN resp.body.values
  ELSE resp.body.interpolated_values

EvaluatedPoints ==
  IF req.endpoint = "rbf_evaluate" THEN req.body.query_points
  ELSE req.body.test_points

\* C12: a successful /rbf/evaluate or /rbf/interpolate over N query (test)
\* points returns exactly N values, the i-th being the value the solver
\* computed for point i, whether the solver returned an N x 1 matrix or a
\* flat N-vector.
C12_ValuesInQueryOrder ==
  Evaluated =>
    /\ solver.ndim \in {1, 2}
    /\ Len(ReturnedValues) = Len(EvaluatedPoints)
    /\ Len(solver.out) = Len(EvaluatedPoints)
    /\ \A i \in 1..Len(EvaluatedPoints) : ReturnedValues[i] = solver.out[i]

\* Two query points with different values, returned as a 2 x 1 matrix.
C12_Witness ==
  /\ Evaluated
  /\ req.endpoint = "rbf_evaluate"
  /\ Len(req.body.query_points) = 2
  /\ solver.ndim = 2
  /\ solver.out[1] # solver.out[2]
  /\ resp.body.values = solver.out

\* C13: extract_coefficients takes a name that is not in the temporary
\* directory, so its file is gone after the call exactly if the directory is
\* as it was before.  Every step on which os.unlink did not fail (it
\* succeeded, or was not needed because no file existed) leaves the
\* directory unchanged, whether save_model succeeded, save_model raised or
\* reading the file raised; hence no sequence of such calls leaves a file.
C13_TempFileReleased ==
  [][solver'.unlink # "OSError" => files' = files]_vars

\* save_model raised, the file existed, and the finally block removed it.
C13_Witness ==
  /\ req.endpoint = "rbf_coefficients"
  /\ solver.extract \in Failures
  /\ solver.exists
  /\ solver.unlink = "ok"
  /\ Went("unlink")
  /\ files = {}

\* os.unlink raised OSError in extract_coefficients' finally block.
CleanupFailed ==
  /\ req.endpoint = "rbf_coefficients"
  /\ Went("unlink")
  /\ solver.unlink = "OSError"

\* C14: when deleting the temporary file fails, the request's outcome is the
\* primary path's: model data that was read is returned (200 with the
\* response built from it; 422 if that response does not validate), a
\* ValueError of save_model or json.load is answered 422 and any other
\* exception of theirs 500 "RBF fitting failed"; the response is the one the
\* same request gets when the deletion succeeds, and the failure is logged.
C14_CleanupFailureOnlyLogged ==
  CleanupFailed =>
    LET primary == IF solver.extract # "ok" THEN solver.extract ELSE solver.load
        data == response_data(solver.model, Extents(req.body.intervals))
    IN /\ log = <<"Failed to clean up temp file">>
       /\ primary = "ok" /\ CoefficientsResponseValid(data)
            => resp = Response(200, "", data)
       /\ primary = "ok" /\ ~CoefficientsResponseValid(data)
            => resp.status = 422
       /\ primary = "ValueError" => resp.status = 422
       /\ primary = "Exception" => resp = Response(500, "RBF fitting failed", <<>>)
       /\ resp = rbf_coefficients_body(req.body, [solver EXCEPT !.unlink = "ok"],
                                       {}).resp

\* The structure was read, the deletion failed, the client got its 200 and
\* the file is still there.
C14_Witness ==
  /\ CleanupFailed
  /\ solver.load = "ok"
  /\ resp.status = 200
  /\ resp.body.kernel_type = "linear"
  /\ files # {}

\* C15: on /rbf/coefficients and /rbf/evaluate a ValueError raised by the
\* solver is answered 422, and any other failure of the solver 500 with a
\* message that names the phase that failed: "RBF fitting failed" when the
\* fit raised, "RBF evaluation failed" when the evaluation raised, on either
\* route.
C15_Original ==
  (/\ req.endpoint \in {"rbf_coefficients", "rbf_evaluate"}
   /\ Went("fit"))
  => /\ solver.fit = "ValueError" => resp.status = 422
     /\ solver.evaluate = "ValueError" => resp.status = 422
     /\ solver.fit = "Exception"
          => resp = Response(500, "RBF fitting failed", <<>>)
     /\ solver.evaluate = "Exception"
          => resp = Response(500, "RBF evaluation failed", <<>>)

\* C16: on /rbf/interpolate, /rbf/coefficients and /rbf/evaluate no failure
\* of the solver's fit or evaluate call and no failure converting the request
\* arrays leaves the handler uncaught: once the handler body is entered the
\* response is the handler's own (200, or 422 / 500 with its detail), never
\* the framework's answer to an unhandled exception.
C16_Original ==
  (/\ req.endpoint \in {"rbf_interpolate", "rbf_coefficients", "rbf_evaluate"}
   /\ Went("handler"))
  => /\ resp # Unhandled
     /\ resp.status \in {200, 422, 500}
     /\ resp.status # 200 => resp.detail # "Internal Server Error"

\* /rbf/coefficients read the solver's persisted structure.
StructureRead ==
  /\ req.endpoint = "rbf_coefficients"
  /\ solver.load = "ok"

\* The response field built from a field of the persisted structure.
ResponseField(f) == IF f = "points" THEN "source_points" ELSE f

RECURSIVE Concatenation(_)
Concatenation(rows) ==
  IF rows = <<>> THEN <<>> ELSE Head(rows) \o Concatenation(Tail(rows))

\* r is the row-major reshape of the persisted matrix d.
ReshapeOf(d, r) ==
  /\ r.kind = "matrix"
  /\ d.nrows # <<>> => Len(r.rows) = d.nrows[1]
  /\ d.ncols # <<>> => \A i \in 1..Len(r.rows) : Len(r.rows[i]) = d.ncols[1]
  /\ d.nrows # <<>> /\ d.ncols # <<>> =>
       \A i \in 1..Len(r.rows) : \A j \in 1..Len(r.rows[i]) :
         /\ (i - 1) * d.ncols[1] + j <= Len(d.data)
         /\ r.rows[i][j] = d.data[(i - 1) * d.ncols[1] + j]
  /\ Concatenation(r.rows) = d.data

\* C17: every persisted matrix {data, nrows, ncols} that reaches a 200 of
\* /rbf/coefficients is returned as nrows rows of ncols elements, element
\* [i][j] being data[i*ncols + j], the rows concatenated giving back data;
\* this also when nrows or ncols is absent or len(data) is not nrows*ncols,
\* unless the request is rejected.
C17_Original ==
  (StructureRead /\ resp.status = 200) =>
    \A f \in ArrayFields :
      (solver.model[f].kind = "dict" /\ solver.model[f].keyed)
        => ReshapeOf(solver.model[f], resp.body[ResponseField(f)])

\* The persisted structure's fields are absent or of the form the response
\* model accepts once reshaped.
PresentFieldsAccepted ==
  /\ \A f \in {"points", "point_coefficients"} :
       solver.model[f].kind = "absent" \/ IsMatrix(extract_array(solver.model[f]))
  /\ \/ solver.model.poly_coefficients.kind \in {"absent", "null"}
     \/ IsMatrix(extract_array(solver.model.poly_coefficients))
  /\ \A f \in {"translation_factor", "scale_factor"} :
       solver.model[f].kind = "absent" \/ IsVector(extract_array(solver.model[f]))

\* C18: fields absent from the persisted structure cause no error on
\* /rbf/coefficients: whatever set of fields is absent, the response is 200
\* with kernel_type "linear", null for absent poly_coefficients, [0,0,0] for
\* absent translation_factor, [1,1,1] for absent scale_factor, and
\* translation_factor and scale_factor flat lists.
C18_AbsentFieldsDefaulted ==
  (StructureRead /\ PresentFieldsAccepted) =>
    /\ resp.status = 200
    /\ resp.body.kernel_type = "linear"
    /\ solver.model.poly_coefficients.kind = "absent"
         => resp.body.poly_coefficients = Null
    /\ solver.model.translation_factor.kind = "absent"
         => resp.body.translation_factor = List(<<0, 0, 0>>)
    /\ solver.model.scale_factor.kind = "absent"
         => resp.body.scale_factor = List(<<1, 1, 1>>)
    /\ solver.model.points.kind = "absent" => resp.body.source_points = List(<<>>)
    /\ solver.model.polynomial_degree = <<>> => resp.body.polynomial_degree = 0
    /\ solver.model.nugget = <<>> => resp.body.nugget = 0
    /\ IsVector(resp.body.translation_factor)
    /\ IsVector(resp.body.scale_factor)

\* The structure has none of its fields, and the client gets the defaults.
C18_Witness ==
  /\ StructureRead
  /\ solver.model = NoModel
  /\ resp.status = 200
  /\ resp.body.poly_coefficients = Null
  /\ resp.body.translation_factor = List(<<0, 0, 0>>)
  /\ resp.body.scale_factor = List(<<1, 1, 1>>)

\* The fitting_accuracy the client sent.
SentAccuracy == req.body.fitting_accuracy

\* C19: on /rbf/coefficients and /rbf/evaluate a fitting_accuracy that is a
\* number not above 0 is answered 422 before any fit, and whenever the solver
\* is fitted the accuracy handed to it is a positive number: the client's
\* when the client sent one, 0.01 when the field was omitted or null.
C19_Original ==
  req.endpoint \in {"rbf_coefficients", "rbf_evaluate"} =>
    /\ (auth.tag = "Authenticated" /\ SentAccuracy[1] = "num" /\ SentAccuracy[2] <= 0)
         => resp.status = 422 /\ ~Went("fit")
    /\ Went("fit") =>
         /\ Len(handed) = 1
         /\ handed[1] # <<>>
         /\ handed[1][1] > 0
         /\ SentAccuracy[1] = "num" => handed[1][1] = SentAccuracy[2]
         /\ SentAccuracy[1] \in {"omitted", "null"} => handed[1][1] = DefaultAccuracy

\* The position of a phase in the order of a request.
Rank(p) ==
  CASE p = "bearer" -> 1
    [] p = "verify" -> 2
    [] p = "schema" -> 3
    [] p = "handler" -> 4
    [] p = "fit" -> 5
    [] p = "evaluate" -> 6
    [] p = "tempfile" -> 6
    [] p = "extract" -> 7
    [] p = "load" -> 8
    [] p = "unlink" -> 9

Repeated ==
  /\ earlier.set
  /\ req.endpoint \in {"health_auth", "me", "rbf_coefficients", "rbf_evaluate"}
  /\ req.header = earlier.header

BearerPresented ==
  /\ req.endpoint \in {"health_auth", "me", "rbf_coefficients", "rbf_evaluate"}
  /\ req.header.present
  /\ req.header.scheme = "Bearer"
  /\ Presented.form # "empty"

\* C23: the checks of the verifier have a fixed precedence. A request with no
\* Authorization header is MissingCredential (401) even when the secret is
\* empty; a bearer credential under an empty secret is ServerMisconfigured
\* (500) whatever the token is; under a configured secret a token signed with
\* another key is InvalidToken (401) even when its exp has passed; and
\* TokenExpired is the outcome only of a token that carries the configured
\* secret's signature and an exp that has passed.
C23_CheckPrecedence ==
  /\ (/\ req.endpoint \in {"health_auth", "me", "rbf_coefficients", "rbf_evaluate"}
      /\ ~req.header.present)
       => auth.tag = "MissingCredential" /\ resp.status = 401
  /\ (BearerPresented /\ secret = "")
       => auth.tag = "ServerMisconfigured" /\ resp.status = 500
  /\ (BearerPresented /\ secret # "" /\ Presented.form = "jwt" /\ Presented.key # secret)
       => auth.tag = "InvalidToken" /\ resp.status = 401
  /\ (~Idle /\ auth.tag = "TokenExpired")
       => /\ BearerPresented
          /\ secret # ""
          /\ Presented.form = "jwt"
          /\ Presented.key = secret
          /\ Presented.claims.exp # <<>>
          /\ Presented.claims.exp[1] <= now
          /\ resp.status = 401

\* No Authorization header under an empty secret: MissingCredential.
C23_Witness ==
  /\ req.endpoint \in {"health_auth", "me", "rbf_coefficients", "rbf_evaluate"}
  /\ ~req.header.present
  /\ secret = ""
  /\ auth.tag = "MissingCredential"
  /\ resp.status = 401

\* C24: expiry is monotone.  The clock never runs backwards; a token that an
\* earlier request saw rejected as TokenExpired is never Authenticated on a
\* later request, and a token that an earlier request saw Authenticated is
\* Authenticated with the same identity or TokenExpired on a later request,
\* never InvalidToken.
C24_ExpiryMonotone ==
  Repeated =>
    /\ earlier.time <= now
    /\ earlier.auth.tag = "TokenExpired"
         => auth.tag \in {"TokenExpired"} /\ resp.status = 401
    /\ earlier.auth.tag = "Authenticated"
         => \/ auth = earlier.auth
            \/ auth.tag = "TokenExpired" /\ resp.status = 401

\* A token Authenticated on an earlier request is TokenExpired on a later one.
C24_Witness ==
  /\ Repeated
  /\ earlier.time < now
  /\ earlier.auth.tag = "Authenticated"
  /\ auth.tag = "TokenExpired"
  /\ resp.status = 401

\* With disk d and the other requests as in slots, the request of slot s
\* (request r) holds a temporary file that no other request holds and that it
\* created itself, has read and deleted no file but its own, and has been
\* answered as it is with no other request in flight.
Isolated(r, slots, d) ==
  LET s == slots[r] IN
  /\ s.path # 0 =>
       /\ \A q \in Requests \ {r} : slots[q].path # s.path
       /\ d[s.path].exists
       /\ d[s.path].creator = r
  /\ s.read \in {0, r}
  /\ s.deleted \in {0, r}
  /\ s.pc = "done" => s.resp = Alone(s.header, s.body[1], s.run).resp

\* C22: under every interleaving of the steps of concurrent /rbf/coefficients
\* requests, every step leaves the configured secret unchanged and leaves
\* each request with a temporary path distinct from that of every other
\* request in flight, having read and deleted no file created by another,
\* and, once answered, with the response it gets when run alone.
C22_RequestsIsolated ==
  [][/\ secret' = secret
     /\ \A r \in Requests : Isolated(r, inflight', disk')]_vars

\* Both requests are between their read and their finally block, each on its
\* own file, each having read the structure its own fit persisted.
C22_Witness ==
  /\ \A r \in Requests :
       /\ inflight[r].pc = "cleanup"
       /\ inflight[r].read = r
       /\ inflight[r].seen.load = "ok"
  /\ inflight[1].path # inflight[2].path
  /\ inflight[1].seen.model # inflight[2].seen.model

====
